---- MODULE Spec2Model ----
(***************************************************************************)
(* Converty: the asynchronous job engine.                                  *)
(*                                                                         *)
(* The model covers the job table of the store (db/jobs.rs), the job queue *)
(* with its semaphore and progress hub (services/queue.rs), the background *)
(* execution of a job (services/queue/processor.rs), the job routes        *)
(* create, retry, cancel and delete (routes/jobs/crud.rs), the progress    *)
(* stream of a job (routes/jobs/stream.rs), the webhook delivery and the   *)
(* upload spawned by an execution (services/queue/webhooks.rs) and the     *)
(* cleanup task (main.rs).                                                 *)
(*                                                                         *)
(* Every await on the store is one step: a handler that reads and then     *)
(* writes is two actions, so other tasks interleave between them as they   *)
(* do on the tokio runtime.  A store write and the hub send that follows   *)
(* it without an intervening await on the store are one step.              *)
(*                                                                         *)
(* Not modelled: progress_message, the formats and the bytes of the        *)
(* artifacts; error and result_path are modelled by whether they are set,  *)
(* started_at, completed_at and updated_at by the write that took the time.*)
(***************************************************************************)
EXTENDS Integers, FiniteSets, Sequences, TLC

\* ------------------------------------------------------------------ bounds
MaxJobs == 1            \* job ids that create_job hands out
MaxRetrying == 2        \* retry requests of a job between their read and write
MaxCancelling == 1      \* cancel requests of a job between their read and write
MaxDeleting == 1        \* delete requests of a job between their read and write
MaxBuffered == 2        \* updates a receiver of progress_tx keeps unread; the
                        \* channel of the code keeps PROGRESS_CHANNEL_CAPACITY

\* ------------------------------------------------------- program constants
MAX_CONCURRENT_JOBS == 10
PROGRESS_CHANNEL_CAPACITY == 100
MAX_RETRIES == 3
DEFAULT_JOB_LIMIT == 5

NULL == "NULL"
JobIds == 1..MaxJobs
\* retry_job lets a request pass while retry_count < MAX_RETRIES
Attempts == 1..(MAX_RETRIES + MaxRetrying)
Keys == {"k1"}
\* api_keys.max_concurrent_jobs of the key: an Option, <<>> for NULL
KeyLimits == {<<>>, <<1>>}

VARIABLES
    store,      \* jobs table: a function from the ids that have a row to the row
    nextId,     \* next job id create_job hands out
    creating,   \* create_job requests past the admission check: id -> arguments
    execs,      \* process_job executions: job id -> attempt -> local state
    permits,    \* available permits of concurrency_semaphore
    others,     \* permits held by process_job executions of jobs outside JobIds
    hub,        \* last update sent on progress_tx
    webhooks,   \* webhook deliveries started: <<job id, status, error>>
    uploads,    \* job ids for which an external-storage upload was started
    retrying,   \* retry_job requests between the read and reset_job_for_retry
    cancelling, \* cancel_job requests between the read and db cancel_job
    deleting,   \* delete_job requests between the read and db delete_job
    keyLimit,   \* api_keys.max_concurrent_jobs of the key
    resp,       \* the response of the handler that returned last
    cancelledPending, \* history: ids that cancel_job cancelled while pending
    stream,     \* a JobProgressStream and the receiver it owns; missed is
                \* history: a completed or failed update of its job was dropped
    event,      \* the last item poll_next of the stream returned
    sideDone,   \* webhook deliveries and uploads that ended
    swept,      \* rows that cleanup_old_jobs removed: <<job id, status>>
    files,      \* paths under temp_dir that exist: <<job id, name>>
    removing    \* delete_job requests inside remove_dir_all, by whether
                \* the row they read had a result path

vars == <<store, nextId, creating, execs, permits, others, hub, webhooks,
          uploads, retrying, cancelling, deleting, keyLimit, resp,
          cancelledPending, stream, event, sideDone, swept, files,
          removing>>

Idle == [pc |-> "idle", res |-> NULL, key |-> NULL, conversion_type |-> NULL]
Done == [pc |-> "done", res |-> NULL, key |-> NULL, conversion_type |-> NULL]
\* an execution that returned because the load of its job failed
LoadFailed == [pc |-> "done", res |-> "store_err", key |-> NULL,
               conversion_type |-> NULL]
NoUpdate == [job_id |-> 0, status |-> "none", progress |-> 0]
NoResp == [op |-> "none", id |-> 0, res |-> "none"]
NoStream == [pc |-> "none", job_id |-> 0, initial_update |-> <<>>,
             initial_sent |-> FALSE, terminated |-> FALSE,
             rx |-> <<>>, lagged |-> FALSE, missed |-> FALSE]
NoEvent == [n |-> 0, update |-> NoUpdate]

HasRow(st, id) == id \in DOMAIN st

\* ------------------------------------------------------------ db/jobs.rs
\* enum ConversionType
ConversionTypes == {"Image", "Document", "Audio", "Video", "Pdf"}

\* impl Display for ConversionType: the text of the conversion_type column
conversion_type_to_string(c) ==
    IF c = "Image" THEN "image"
    ELSE IF c = "Document" THEN "document"
    ELSE IF c = "Audio" THEN "audio"
    ELSE IF c = "Video" THEN "video"
    ELSE "pdf"

JobRecord(owner, webhook, conversion_type) ==
    [status |-> "pending",
     conversion_type |-> conversion_type_to_string(conversion_type), progress |-> 0, error |-> NULL,
     result_path |-> NULL, started_at |-> NULL, completed_at |-> NULL,
     retry_count |-> 0, api_key_id |-> owner, webhook_url |-> webhook,
     drive_file_id |-> NULL, updated_at |-> "t_create", aged |-> FALSE]

db_create_job(st, id, job) ==
    [j \in DOMAIN st \cup {id} |-> IF j = id THEN job ELSE st[j]]

\* Utc::now() of a write: the writes of an execution are made at different
\* times, named here after the write
now(status, progress) ==
    IF status = "cancelled" THEN "t_cancel"
    ELSE IF status # "processing" THEN "t_final"
    ELSE IF progress = 0 THEN "t_0"
    ELSE IF progress = 10 THEN "t_10"
    ELSE IF progress = 30 THEN "t_30"
    ELSE "t_80"

update_job_status(st, id, status, progress, error, result_path) ==
    IF ~HasRow(st, id) THEN st
    ELSE [st EXCEPT ![id] =
            [@ EXCEPT !.status = status,
                      !.progress = progress,
                      !.error = IF error # NULL THEN error ELSE @,
                      !.result_path = IF result_path # NULL THEN result_path ELSE @,
                      !.started_at = IF status = "processing"
                                     THEN now(status, progress) ELSE @,
                      !.completed_at = IF status \in {"completed", "failed"}
                                       THEN now(status, progress) ELSE @,
                      !.updated_at = now(status, progress)]]

db_delete_job(st, id) == [j \in DOMAIN st \ {id} |-> st[j]]

count_user_active_jobs(st, key) ==
    Cardinality({j \in DOMAIN st : /\ st[j].api_key_id = key
                                   /\ st[j].status \in {"pending", "processing"}})

get_user_job_limit(limit) == IF limit = <<>> THEN DEFAULT_JOB_LIMIT ELSE limit[1]

\* reset_job_for_retry without the status condition of its WHERE clause
reset_job_for_retry_hits_any(st, id) == HasRow(st, id)

reset_job_for_retry_hits(st, id) == HasRow(st, id) /\ st[id].status = "failed"

\* reset_job_for_retry that leaves the error and the timestamps in place
reset_job_for_retry_keeps(st, id) ==
    IF HasRow(st, id) /\ st[id].status = "failed"
    THEN [st EXCEPT ![id] = [@ EXCEPT !.status = "pending",
                                      !.progress = 0,
                                      !.retry_count = @ + 1,
                                      !.updated_at = "t_retry"]]
    ELSE st

\* reset_job_for_retry that writes retry_count 1 instead of adding 1
reset_job_for_retry_count_one(st, id) ==
    IF HasRow(st, id) /\ st[id].status = "failed"
    THEN [st EXCEPT ![id] = [@ EXCEPT !.status = "pending",
                                      !.progress = 0,
                                      !.error = NULL,
                                      !.started_at = NULL,
                                      !.completed_at = NULL,
                                      !.retry_count = 1,
                                      !.updated_at = "t_retry"]]
    ELSE st

reset_job_for_retry(st, id) ==
    IF reset_job_for_retry_hits(st, id)
    THEN [st EXCEPT ![id] =
            [@ EXCEPT !.status = "pending",
                      !.progress = 0,
                      !.error = NULL,
                      !.started_at = NULL,
                      !.completed_at = NULL,
                      !.retry_count = @ + 1,
                      !.updated_at = "t_retry"]]
    ELSE st

\* db cancel_job without the status condition of its WHERE clause
db_cancel_job_hits_any(st, id) == HasRow(st, id)

db_cancel_job_hits(st, id) ==
    HasRow(st, id) /\ st[id].status \in {"pending", "processing"}

\* db cancel_job that writes completed_at and leaves the status
db_cancel_job_keeps_status(st, id) ==
    IF HasRow(st, id) /\ st[id].status \in {"pending", "processing"}
    THEN [st EXCEPT ![id] = [@ EXCEPT !.completed_at = now("cancelled", 0),
                                      !.updated_at = now("cancelled", 0)]]
    ELSE st

\* db cancel_job whose UPDATE has no condition on the status
db_cancel_job_unguarded(st, id) ==
    IF HasRow(st, id)
    THEN [st EXCEPT ![id] = [@ EXCEPT !.status = "cancelled",
                                      !.completed_at = now("cancelled", 0),
                                      !.updated_at = now("cancelled", 0)]]
    ELSE st

db_cancel_job(st, id) ==
    IF db_cancel_job_hits(st, id)
    THEN [st EXCEPT ![id] = [@ EXCEPT !.status = "cancelled",
                                      !.completed_at = now("cancelled", 0),
                                      !.updated_at = now("cancelled", 0)]]
    ELSE st

\* a DELETE of cleanup_old_jobs without the condition on the status
old_jobs_any_status(st) == {j \in DOMAIN st : st[j].aged}

\* the rows that the DELETE of cleanup_old_jobs matches
old_jobs(st) ==
    {j \in DOMAIN st : st[j].status \in {"completed", "failed"} /\ st[j].aged}

\* DELETE FROM jobs WHERE status IN ('completed', 'failed') AND created_at < ?
delete_old_jobs(st) == [j \in DOMAIN st \ old_jobs(st) |-> st[j]]

\* UPDATE jobs SET drive_file_id = ?, updated_at = ? WHERE id = ?
update_job_drive_file_id(st, id, file) ==
    IF HasRow(st, id)
    THEN [st EXCEPT ![id] = [@ EXCEPT !.drive_file_id = file,
                                      !.updated_at = "t_drive"]]
    ELSE st

get_job_webhook(st, id) == IF HasRow(st, id) THEN st[id].webhook_url ELSE NULL

\* ----------------------------------------------------- services/queue.rs
ProgressUpdate(id, status, progress) ==
    [job_id |-> id, status |-> status, progress |-> progress]

\* job_from_record: the conversion_type column as a ConversionType
job_from_record_conversion_type(column) ==
    IF column = "image" THEN "Image"
    ELSE IF column = "document" THEN "Document"
    ELSE IF column = "audio" THEN "Audio"
    ELSE IF column = "video" THEN "Video"
    ELSE "Image"

\* a receiver of the broadcast channel: a send to a full receiver drops its
\* oldest update and leaves the Lagged error for its next poll
deliver(s, update) ==
    IF s.pc # "open" THEN s
    ELSE IF Len(s.rx) < MaxBuffered THEN [s EXCEPT !.rx = Append(@, update)]
    ELSE [s EXCEPT !.rx = Append(Tail(@), update),
                   !.lagged = TRUE,
                   !.missed = @ \/ (/\ Head(s.rx).job_id = s.job_id
                                    /\ Head(s.rx).status \in {"completed", "failed"})]

send_progress(update) ==
    /\ hub' = update
    /\ stream' = deliver(stream, update)

mark_job_processing(id) ==
    /\ store' = update_job_status(store, id, "processing", 0, NULL, NULL)
    /\ send_progress(ProgressUpdate(id, "processing", 0))

\* update_job_progress that sends the update without writing the row
update_job_progress_unwritten(id, progress) ==
    /\ store' = store
    /\ send_progress(ProgressUpdate(id, "processing", progress))

update_job_progress(id, progress) ==
    /\ store' = update_job_status(store, id, "processing", progress, NULL, NULL)
    /\ send_progress(ProgressUpdate(id, "processing", progress))

\* mark_job_completed that passes no result path to update_job_status
mark_job_completed_nopath(id) ==
    /\ store' = update_job_status(store, id, "completed", 100, NULL, NULL)
    /\ send_progress(ProgressUpdate(id, "completed", 100))

mark_job_completed(id) ==
    /\ store' = update_job_status(store, id, "completed", 100, NULL, "path")
    /\ send_progress(ProgressUpdate(id, "completed", 100))

\* mark_job_failed that passes no error to update_job_status
mark_job_failed_noerror(id) ==
    /\ store' = update_job_status(store, id, "failed", 0, NULL, NULL)
    /\ send_progress(ProgressUpdate(id, "failed", 0))

mark_job_failed(id) ==
    /\ store' = update_job_status(store, id, "failed", 0, "err", NULL)
    /\ send_progress(ProgressUpdate(id, "failed", 0))

\* the job directory temp_dir/<id>, the input file create_job writes into it
\* and the output file the converter writes into it
job_dir(id) == <<id, "dir">>
input_path(id) == <<id, "input">>
output_path(id) == <<id, "output">>

\* std::fs::create_dir_all
create_dir_all(fs, dir) == fs \cup {dir}

\* std::fs::write: creates the file when its directory exists
fs_write(fs, id, path) == IF job_dir(id) \in fs THEN fs \cup {path} ELSE fs

\* std::fs::remove_file
remove_file(fs, path) == fs \ {path}

\* the files inside the job directory
dir_entries(fs, id) == fs \cap {input_path(id), output_path(id)}

\* std::fs::remove_dir_all, first part: unlinks the entries it listed
remove_dir_all_entries(fs, id) == fs \ dir_entries(fs, id)

\* std::fs::remove_dir_all, last part: rmdir, which fails on a directory
\* that is not empty
remove_dir_all_rmdir(fs, id) ==
    IF dir_entries(fs, id) = {} THEN fs \ {job_dir(id)} ELSE fs

\* the state after create_job_queue(); ids are the job ids the model follows
InitJobs(ids) ==
    /\ store = <<>>
    /\ nextId = 1
    /\ creating = <<>>
    /\ execs = [j \in ids |-> [a \in Attempts |-> Idle]]
    /\ permits = MAX_CONCURRENT_JOBS
    /\ others = 0
    /\ hub = NoUpdate
    /\ webhooks = {}
    /\ uploads = {}
    /\ retrying = [j \in ids |-> 0]
    /\ cancelling = [j \in ids |-> 0]
    /\ deleting = [j \in ids |-> 0]
    /\ keyLimit \in KeyLimits
    /\ resp = NoResp
    /\ cancelledPending = {}
    /\ stream = NoStream
    /\ event = NoEvent
    /\ sideDone = {}
    /\ swept = {}
    /\ files = {}
    /\ removing = [j \in ids |-> [p \in BOOLEAN |-> 0]]

Init == InitJobs(JobIds)

\* ------------------------------------------- services/queue/processor.rs
\* The executions of a job are numbered in the order they were spawned.
Spawned(ex, id) == {a \in Attempts : ex[id][a].pc # "idle"}

spawn_process_job(ex, id) ==
    [ex EXCEPT ![id][Cardinality(Spawned(ex, id)) + 1].pc = "acquire"]

Step(id, a, pc) == [execs EXCEPT ![id][a].pc = pc]

\* Ok(Some(job)) of q.get_job(): the job of the row, as job_from_record gives it
Loaded(id, a) ==
    [execs EXCEPT ![id][a].pc = "record",
                  ![id][a].conversion_type =
                      job_from_record_conversion_type(store[id].conversion_type)]

\* an acquire that goes on without a permit
process_job_acquire_nowait(id, a) ==
    /\ execs[id][a].pc = "acquire"
    /\ permits' = IF permits > 0 THEN permits - 1 ELSE permits
    /\ execs' = Step(id, a, "mark")
    /\ UNCHANGED <<store, nextId, creating, others, hub, webhooks, uploads,
                   retrying, cancelling, deleting, keyLimit, resp,
                   cancelledPending,
                   stream, event, sideDone, swept, files,
                   removing>>

\* semaphore.acquire(): waits while no permit is available
process_job_acquire(id, a) ==
    /\ execs[id][a].pc = "acquire"
    /\ permits > 0
    /\ permits' = permits - 1
    /\ execs' = Step(id, a, "mark")
    /\ UNCHANGED <<store, nextId, creating, others, hub, webhooks, uploads,
                   retrying, cancelling, deleting, keyLimit, resp,
                   cancelledPending,
                   stream, event, sideDone, swept, files,
                   removing>>

process_job_mark(id, a) ==
    /\ execs[id][a].pc = "mark"
    /\ mark_job_processing(id)
    /\ execs' = Step(id, a, "load")
    /\ UNCHANGED <<nextId, creating, permits, others, webhooks, uploads,
                   retrying, cancelling, deleting, keyLimit, resp,
                   cancelledPending,
                   event, sideDone, swept, files,
                   removing>>

\* a load whose early return keeps the permit
process_job_load_leak(id, a) ==
    /\ execs[id][a].pc = "load"
    /\ execs' = IF HasRow(store, id) THEN Loaded(id, a)
                ELSE [execs EXCEPT ![id][a] = Done]
    /\ UNCHANGED <<store, nextId, creating, permits, others, hub, webhooks,
                   uploads, retrying, cancelling, deleting, keyLimit, resp,
                   cancelledPending,
                   stream, event, sideDone, swept, files,
                   removing>>

\* q.get_job(): no row ends the execution, and _permit is dropped
process_job_load(id, a) ==
    /\ execs[id][a].pc = "load"
    /\ IF HasRow(store, id)
       THEN /\ execs' = Loaded(id, a)
            /\ permits' = permits
       ELSE /\ execs' = [execs EXCEPT ![id][a] = Done]
            /\ permits' = permits + 1
    /\ UNCHANGED <<store, nextId, creating, others, hub, webhooks, uploads,
                   retrying, cancelling, deleting, keyLimit, resp,
                   cancelledPending,
                   stream, event, sideDone, swept, files,
                   removing>>

\* q.get_job() returns Err: the arm _ => return, and _permit is dropped
process_job_load_err(id, a) ==
    /\ execs[id][a].pc = "load"
    /\ execs' = [execs EXCEPT ![id][a] = LoadFailed]
    /\ permits' = permits + 1
    /\ UNCHANGED <<store, nextId, creating, others, hub, webhooks, uploads,
                   retrying, cancelling, deleting, keyLimit, resp,
                   cancelledPending,
                   stream, event, sideDone, swept, files,
                   removing>>

\* db_jobs::get_job() for api_key_id: a second read of the row
process_job_record(id, a) ==
    /\ execs[id][a].pc = "record"
    /\ execs' = [execs EXCEPT ![id][a].pc = "p10",
                              ![id][a].key = IF HasRow(store, id)
                                             THEN store[id].api_key_id ELSE NULL]
    /\ UNCHANGED <<store, nextId, creating, permits, others, hub, webhooks,
                   uploads, retrying, cancelling, deleting, keyLimit, resp,
                   cancelledPending,
                   stream, event, sideDone, swept, files,
                   removing>>

process_job_progress(id, a, pc, progress, next) ==
    /\ execs[id][a].pc = pc
    /\ update_job_progress(id, progress)
    /\ execs' = Step(id, a, next)
    /\ UNCHANGED <<nextId, creating, permits, others, webhooks, uploads,
                   retrying, cancelling, deleting, keyLimit, resp,
                   cancelledPending,
                   event, sideDone, swept, removing>>

\* the checkpoint 10 and the create_dir_all of the job directory after it
process_job_p10(id, a) ==
    /\ process_job_progress(id, a, "p10", 10, "p30")
    /\ files' = create_dir_all(files, job_dir(id))

process_job_p30(id, a) ==
    /\ process_job_progress(id, a, "p30", 30, "convert")
    /\ files' = files

\* converter::convert_file / convert_pdf_file_smart up to the read of the
\* input file: Err when the file is missing or cannot be converted
process_job_convert(id, a) ==
    /\ execs[id][a].pc = "convert"
    /\ \E r \in {"ok", "err"} :
          IF r = "ok" /\ input_path(id) \in files
          THEN execs' = Step(id, a, "write")
          ELSE execs' = [execs EXCEPT ![id][a].pc = "p80",
                                      ![id][a].res = "err"]
    /\ UNCHANGED <<store, nextId, creating, permits, others, hub, webhooks,
                   uploads, retrying, cancelling, deleting, keyLimit, resp,
                   cancelledPending,
                   stream, event, sideDone, swept, files,
                   removing>>

\* the end of the conversion: std::fs::write of the output file, which
\* fails when the job directory is gone
process_job_write(id, a) ==
    /\ execs[id][a].pc = "write"
    /\ files' = fs_write(files, id, output_path(id))
    /\ execs' = [execs EXCEPT ![id][a].pc = "p80",
                              ![id][a].res = IF job_dir(id) \in files
                                             THEN "ok" ELSE "err"]
    /\ UNCHANGED <<store, nextId, creating, permits, others, hub, webhooks,
                   uploads, retrying, cancelling, deleting, keyLimit, resp,
                   cancelledPending,
                   stream, event, sideDone, swept, removing>>

process_job_p80(id, a) ==
    /\ process_job_progress(id, a, "p80", 80, "final")
    /\ files' = files

\* a last step that spawns the upload whatever the result and the owner
process_job_final_upload_any(id, a) ==
    /\ execs[id][a].pc = "final"
    /\ IF execs[id][a].res = "ok"
       THEN mark_job_completed(id)
       ELSE mark_job_failed(id)
    /\ \E google \in BOOLEAN :
          uploads' = IF google THEN uploads \cup {id} ELSE uploads
    /\ execs' = Step(id, a, "webhook")
    /\ UNCHANGED <<nextId, creating, permits, others, webhooks,
                   retrying, cancelling, deleting, keyLimit, resp,
                   cancelledPending,
                   event, sideDone, swept, files,
                   removing>>

\* match result { Ok => mark_job_completed, Err => mark_job_failed }, then the
\* upload is spawned for a completed job with an api key when the Google
\* credentials are in the environment
process_job_final(id, a) ==
    /\ execs[id][a].pc = "final"
    /\ IF execs[id][a].res = "ok"
       THEN /\ mark_job_completed(id)
            /\ \E google \in BOOLEAN :
                  uploads' = IF google /\ execs[id][a].key # NULL
                             THEN uploads \cup {id} ELSE uploads
       ELSE /\ mark_job_failed(id)
            /\ uploads' = uploads
    /\ execs' = Step(id, a, "webhook")
    /\ UNCHANGED <<nextId, creating, permits, others, webhooks,
                   retrying, cancelling, deleting, keyLimit, resp,
                   cancelledPending,
                   event, sideDone, swept, files,
                   removing>>

final_status(r) == IF r = "ok" THEN "completed" ELSE "failed"

error_msg(r) == IF r = "ok" THEN NULL ELSE "err"

\* a webhook step that reports every attempt as completed
process_job_webhook_completed(id, a) ==
    /\ execs[id][a].pc = "webhook"
    /\ webhooks' = IF get_job_webhook(store, id) # NULL
                   THEN webhooks \cup {<<id, "completed", NULL>>}
                   ELSE webhooks
    /\ execs' = [execs EXCEPT ![id][a] = Done]
    /\ permits' = permits + 1
    /\ UNCHANGED <<store, nextId, creating, others, hub, uploads,
                   retrying, cancelling, deleting, keyLimit, resp,
                   cancelledPending,
                   stream, event, sideDone, swept, files,
                   removing>>

\* get_job_webhook(), spawn send_webhook, return: _permit is dropped
process_job_webhook(id, a) ==
    /\ execs[id][a].pc = "webhook"
    /\ webhooks' = IF get_job_webhook(store, id) # NULL
                   THEN webhooks \cup {<<id, final_status(execs[id][a].res),
                                          error_msg(execs[id][a].res)>>}
                   ELSE webhooks
    /\ execs' = [execs EXCEPT ![id][a] = Done]
    /\ permits' = permits + 1
    /\ UNCHANGED <<store, nextId, creating, others, hub, uploads,
                   retrying, cancelling, deleting, keyLimit, resp,
                   cancelledPending,
                   stream, event, sideDone, swept, files,
                   removing>>

process_job(id, a) ==
    \/ process_job_acquire(id, a)
    \/ process_job_mark(id, a)
    \/ process_job_load(id, a)
    \/ process_job_record(id, a)
    \/ process_job_p10(id, a)
    \/ process_job_p30(id, a)
    \/ process_job_convert(id, a)
    \/ process_job_write(id, a)
    \/ process_job_p80(id, a)
    \/ process_job_final(id, a)
    \/ process_job_webhook(id, a)

\* ------------------------------------------- services/queue/webhooks.rs
SideTask(kind, id, status, outcome) ==
    [kind |-> kind, id |-> id, status |-> status, outcome |-> outcome]

Ended(kind, id, status) ==
    \E t \in sideDone : t.kind = kind /\ t.id = id /\ t.status = status

\* send_webhook: the client cannot be built, or the POST is answered with
\* success, answered with another status, or fails; every branch only logs
send_webhook(id) ==
    /\ \E w \in webhooks :
          /\ w[1] = id
          /\ ~Ended("webhook", id, w[2])
          /\ \E outcome \in {"sent", "refused", "err"} :
                sideDone' = sideDone \cup {SideTask("webhook", id, w[2], outcome)}
    /\ UNCHANGED <<store, nextId, creating, execs, permits, others, hub,
                   webhooks, uploads, retrying, cancelling, deleting, keyLimit,
                   resp, cancelledPending, stream, event, swept, files,
                   removing>>

\* an upload task that marks its job failed when the upload fails
upload_to_drive_if_enabled_failing(id) ==
    /\ id \in uploads
    /\ ~Ended("upload", id, NULL)
    /\ \E outcome \in {"skipped", "err", "unsaved", "ok"} :
          /\ sideDone' = sideDone \cup {SideTask("upload", id, NULL, outcome)}
          /\ store' = IF outcome = "ok"
                      THEN update_job_drive_file_id(store, id, "file")
                      ELSE IF outcome = "err"
                      THEN update_job_status(store, id, "failed", 0, "err", NULL)
                      ELSE store
    /\ UNCHANGED <<nextId, creating, execs, permits, others, hub,
                   webhooks, uploads, retrying, cancelling, deleting, keyLimit,
                   resp, cancelledPending, stream, event, swept, files,
                   removing>>

\* upload_to_drive_if_enabled: returns early without a user, with the export
\* off or the type filtered out (skipped); the token, the folder or the upload
\* fails (err); after the upload update_job_drive_file_id fails (unsaved) or
\* writes the file id (ok)
upload_to_drive_if_enabled(id) ==
    /\ id \in uploads
    /\ ~Ended("upload", id, NULL)
    /\ \E outcome \in {"skipped", "err", "unsaved", "ok"} :
          /\ sideDone' = sideDone \cup {SideTask("upload", id, NULL, outcome)}
          /\ store' = IF outcome = "ok"
                      THEN update_job_drive_file_id(store, id, "file")
                      ELSE store
    /\ UNCHANGED <<nextId, creating, execs, permits, others, hub,
                   webhooks, uploads, retrying, cancelling, deleting, keyLimit,
                   resp, cancelledPending, stream, event, swept, files,
                   removing>>

\* ---------------------------------------------------------------- main.rs
\* the retention window of a job ends: its created_at is before the cutoff
\* of the sweeps from now on
time_passes(id) ==
    /\ HasRow(store, id)
    /\ ~store[id].aged
    /\ store' = [store EXCEPT ![id].aged = TRUE]
    /\ UNCHANGED <<nextId, creating, execs, permits, others, hub, webhooks,
                   uploads, retrying, cancelling, deleting, keyLimit, resp,
                   cancelledPending, stream, event, sideDone, swept, files,
                   removing>>

\* cleanup_old_jobs: the paths of the old rows, which the cleanup task of
\* main.rs removes
files_to_delete(st) ==
    {input_path(j) : j \in old_jobs(st)}
    \cup {output_path(j) : j \in {k \in old_jobs(st) : st[k].result_path # NULL}}

\* the hourly cleanup_old_jobs(pool, 7): the DELETE of the old rows and the
\* removal of their files
cleanup_old_jobs ==
    /\ store' = delete_old_jobs(store)
    /\ swept' = swept \cup {<<j, store[j].status>> : j \in old_jobs(store)}
    /\ files' = files \ files_to_delete(store)
    /\ UNCHANGED <<nextId, creating, execs, permits, others, hub, webhooks,
                   uploads, retrying, cancelling, deleting, keyLimit, resp,
                   cancelledPending, stream, event, sideDone, removing>>

\* --------------------------------------------------- routes/jobs/crud.rs
Resp(op, id, res) == [op |-> op, id |-> id, res |-> res]

\* an admission check that also counts the jobs of no owner
TooManyJobs_anyowner(st, limit, owner) ==
    count_user_active_jobs(st, owner) >= get_user_job_limit(limit)

\* JobQueueInner::create_job, lines 95-110: the admission check of an owner
TooManyJobs(st, limit, owner) ==
    /\ owner # NULL
    /\ count_user_active_jobs(st, owner) >= get_user_job_limit(limit)

\* pending and processing rows of any owner
active_jobs(st) ==
    Cardinality({j \in DOMAIN st : st[j].status \in {"pending", "processing"}})

\* create_job up to the admission check; the id is the one Uuid::new_v4()
\* returns after it, while the model has ids left.  The field active of the
\* request is history: the pending and processing rows at the check.
create_job_request(owner, webhook, conversion_type) ==
    /\ IF TooManyJobs(store, keyLimit, owner)
       THEN /\ resp' = Resp("create", 0, "TooManyJobs")
            /\ UNCHANGED <<creating, nextId>>
       ELSE /\ nextId \in DOMAIN execs
            /\ creating' = db_create_job(creating, nextId,
                               [owner |-> owner, webhook |-> webhook,
                                conversion_type |-> conversion_type,
                                active |-> active_jobs(store)])
            /\ nextId' = nextId + 1
            /\ resp' = resp
    /\ files' = IF TooManyJobs(store, keyLimit, owner)
                THEN files
                ELSE fs_write(create_dir_all(files, job_dir(nextId)),
                              nextId, input_path(nextId))
    /\ UNCHANGED <<store, execs, permits, others, hub, webhooks, uploads,
                   retrying, cancelling, deleting, keyLimit,
                   cancelledPending,
                   stream, event, sideDone, swept, removing>>

\* create_job for an image conversion
create_job_admit(owner, webhook) == create_job_request(owner, webhook, "Image")

\* create_job from the insert on: the row, the pending update, and the route
\* spawns process_job
create_job_insert(id) ==
    /\ id \in DOMAIN creating
    /\ store' = db_create_job(store, id,
                    JobRecord(creating[id].owner, creating[id].webhook,
                              creating[id].conversion_type))
    /\ send_progress(ProgressUpdate(id, "pending", 0))
    /\ execs' = spawn_process_job(execs, id)
    /\ creating' = db_delete_job(creating, id)
    /\ resp' = Resp("create", id, "Ok")
    /\ UNCHANGED <<nextId, permits, others, webhooks, uploads,
                   retrying, cancelling, deleting, keyLimit,
                   cancelledPending,
                   event, sideDone, swept, files,
                   removing>>

\* retry_job without the MAX_RETRIES check
retry_job_rejects_nolimit(st, id) ==
    IF ~HasRow(st, id) THEN "JobNotFound"
    ELSE IF st[id].status # "failed" THEN "BadRequest"
    ELSE "Ok"

\* retry_job, lines 360-379: the read of the row and the two checks
retry_job_rejects(st, id) ==
    IF ~HasRow(st, id) THEN "JobNotFound"
    ELSE IF st[id].status # "failed" THEN "BadRequest"
    ELSE IF st[id].retry_count >= MAX_RETRIES THEN "BadRequest"
    ELSE "Ok"

retry_job_read(id) ==
    /\ retrying[id] < MaxRetrying
    /\ IF retry_job_rejects(store, id) = "Ok"
       THEN /\ retrying' = [retrying EXCEPT ![id] = @ + 1]
            /\ resp' = resp
       ELSE /\ retrying' = retrying
            /\ resp' = Resp("retry", id, retry_job_rejects(store, id))
    /\ UNCHANGED <<store, nextId, creating, execs, permits, others, hub,
                   webhooks, uploads, cancelling, deleting, keyLimit,
                   cancelledPending,
                   stream, event, sideDone, swept, files,
                   removing>>

\* retry_job, lines 382-403: reset_job_for_retry and the spawn
retry_job_reset(id) ==
    /\ retrying[id] > 0
    /\ retrying' = [retrying EXCEPT ![id] = @ - 1]
    /\ store' = reset_job_for_retry(store, id)
    /\ IF reset_job_for_retry_hits(store, id)
       THEN /\ execs' = spawn_process_job(execs, id)
            /\ resp' = Resp("retry", id, "Ok")
       ELSE /\ execs' = execs
            /\ resp' = Resp("retry", id, "Internal")
    /\ UNCHANGED <<nextId, creating, permits, others, hub, webhooks, uploads,
                   cancelling, deleting, keyLimit,
                   cancelledPending,
                   stream, event, sideDone, swept, files,
                   removing>>

\* cancel_job, lines 425-436: the read of the row and the status check
cancel_job_rejects(st, id) ==
    IF ~HasRow(st, id) THEN "JobNotFound"
    ELSE IF st[id].status # "pending" /\ st[id].status # "processing"
    THEN "BadRequest"
    ELSE "Ok"

cancel_job_read(id) ==
    /\ cancelling[id] < MaxCancelling
    /\ IF cancel_job_rejects(store, id) = "Ok"
       THEN /\ cancelling' = [cancelling EXCEPT ![id] = @ + 1]
            /\ resp' = resp
       ELSE /\ cancelling' = cancelling
            /\ resp' = Resp("cancel", id, cancel_job_rejects(store, id))
    /\ UNCHANGED <<store, nextId, creating, execs, permits, others, hub,
                   webhooks, uploads, retrying, deleting, keyLimit,
                   cancelledPending,
                   stream, event, sideDone, swept, files,
                   removing>>

\* cancel_job, lines 439-462: db cancel_job and the cancelled update
cancel_job_write(id) ==
    /\ cancelling[id] > 0
    /\ cancelling' = [cancelling EXCEPT ![id] = @ - 1]
    /\ store' = db_cancel_job(store, id)
    /\ cancelledPending' = IF HasRow(store, id) /\ store[id].status = "pending"
                           THEN cancelledPending \cup {id} ELSE cancelledPending
    /\ IF db_cancel_job_hits(store, id)
       THEN /\ send_progress(ProgressUpdate(id, "cancelled", 0))
            /\ resp' = Resp("cancel", id, "Ok")
       ELSE /\ hub' = hub
            /\ stream' = stream
            /\ resp' = Resp("cancel", id, "Internal")
    /\ UNCHANGED <<nextId, creating, execs, permits, others, webhooks, uploads,
                   retrying, deleting, keyLimit,
                   event, sideDone, swept, files,
                   removing>>

\* a delete_job that finds only the rows of jobs that are not running
delete_job_read_idle_only(id) ==
    /\ deleting[id] < MaxDeleting
    /\ IF HasRow(store, id) /\ store[id].status # "processing"
       THEN /\ deleting' = [deleting EXCEPT ![id] = @ + 1]
            /\ removing' = [removing EXCEPT
                               ![id][store[id].result_path # NULL] = @ + 1]
            /\ files' = remove_dir_all_entries(files, id)
            /\ resp' = resp
       ELSE /\ deleting' = deleting
            /\ UNCHANGED <<files, removing>>
            /\ resp' = Resp("delete", id, "JobNotFound")
    /\ UNCHANGED <<store, nextId, creating, execs, permits, others, hub,
                   webhooks, uploads, retrying, cancelling, keyLimit,
                   cancelledPending, stream, event, sideDone, swept>>

\* JobQueueInner::delete_job, lines 180-187 and 199-201: the read of the row;
\* on a row remove_dir_all starts on the job directory and unlinks what it
\* finds in it
delete_job_read(id) ==
    /\ deleting[id] < MaxDeleting
    /\ IF HasRow(store, id)
       THEN /\ deleting' = [deleting EXCEPT ![id] = @ + 1]
            /\ removing' = [removing EXCEPT
                               ![id][store[id].result_path # NULL] = @ + 1]
            /\ files' = remove_dir_all_entries(files, id)
            /\ resp' = resp
       ELSE /\ deleting' = deleting
            /\ UNCHANGED <<files, removing>>
            /\ resp' = Resp("delete", id, "JobNotFound")
    /\ UNCHANGED <<store, nextId, creating, execs, permits, others, hub,
                   webhooks, uploads, retrying, cancelling, keyLimit,
                   cancelledPending,
                   stream, event, sideDone, swept>>

\* JobQueueInner::delete_job, lines 187-191: remove_dir_all ends with the
\* rmdir of the job directory, whose error is dropped, and the result file
\* the row named is removed
delete_job_remove(id) ==
    /\ \E p \in BOOLEAN :
          /\ removing[id][p] > 0
          /\ removing' = [removing EXCEPT ![id][p] = @ - 1]
          /\ files' = IF p
                      THEN remove_file(remove_dir_all_rmdir(files, id),
                                       output_path(id))
                      ELSE remove_dir_all_rmdir(files, id)
    /\ UNCHANGED <<store, nextId, creating, execs, permits, others, hub,
                   webhooks, uploads, retrying, cancelling, deleting, keyLimit,
                   resp, cancelledPending, stream, event, sideDone, swept>>

\* JobQueueInner::delete_job, lines 193-198: db delete_job, whose row count
\* is not looked at
delete_job_write(id) ==
    /\ deleting[id] > removing[id][TRUE] + removing[id][FALSE]
    /\ deleting' = [deleting EXCEPT ![id] = @ - 1]
    /\ store' = db_delete_job(store, id)
    /\ resp' = Resp("delete", id, "Ok")
    /\ UNCHANGED <<nextId, creating, execs, permits, others, hub, webhooks,
                   uploads, retrying, cancelling, keyLimit,
                   cancelledPending,
                   stream, event, sideDone, swept, files,
                   removing>>

\* ------------------------------------------------- routes/jobs/stream.rs
\* job_from_record: the status column as a JobStatus
job_from_record_status(status) ==
    IF status \in {"pending", "processing", "completed", "failed", "cancelled"}
    THEN status ELSE "pending"

\* Job::to_progress_update of the job read from the row
to_progress_update(st, id) ==
    ProgressUpdate(id, job_from_record_status(st[id].status), st[id].progress)

Emit(update) == [n |-> 1 - event.n, update |-> update]

\* poll_next, lines 43 and 57: the statuses that end the stream
ends_stream(update) == update.status \in {"completed", "failed"}

\* job_progress_stream, lines 95-105: the read of the job
job_progress_stream_read(id) ==
    /\ stream.pc = "none"
    /\ IF HasRow(store, id)
       THEN /\ stream' = [NoStream EXCEPT
                            !.pc = "read",
                            !.job_id = id,
                            !.initial_update = <<to_progress_update(store, id)>>]
            /\ resp' = resp
       ELSE /\ stream' = stream
            /\ resp' = Resp("stream", id, "JobNotFound")
    /\ UNCHANGED <<store, nextId, creating, execs, permits, others, hub,
                   webhooks, uploads, retrying, cancelling, deleting, keyLimit,
                   cancelledPending, event, sideDone, swept, files,
                   removing>>

\* job_progress_stream, lines 108-118: progress_tx.subscribe() and the stream
job_progress_stream_subscribe ==
    /\ stream.pc = "read"
    /\ stream' = [stream EXCEPT !.pc = "open"]
    /\ UNCHANGED <<store, nextId, creating, execs, permits, others, hub,
                   webhooks, uploads, retrying, cancelling, deleting, keyLimit,
                   resp, cancelledPending, event, sideDone, swept, files,
                   removing>>

\* a poll_next that forwards the updates of every job
poll_next_unfiltered ==
    /\ stream.pc = "open"
    /\ IF stream.terminated
       THEN /\ stream' = [stream EXCEPT !.pc = "ended"]
            /\ event' = event
       ELSE IF ~stream.initial_sent /\ stream.initial_update # <<>>
       THEN /\ stream' = [stream EXCEPT
                            !.initial_sent = TRUE,
                            !.initial_update = <<>>,
                            !.terminated = ends_stream(stream.initial_update[1])]
            /\ event' = Emit(stream.initial_update[1])
       ELSE IF stream.lagged
       THEN /\ stream' = [stream EXCEPT !.initial_sent = TRUE, !.lagged = FALSE]
            /\ event' = event
       ELSE /\ stream.rx # <<>>
            /\ stream' = [stream EXCEPT
                            !.initial_sent = TRUE,
                            !.rx = Tail(@),
                            !.terminated = ends_stream(Head(stream.rx))]
            /\ event' = Emit(Head(stream.rx))
    /\ UNCHANGED <<store, nextId, creating, execs, permits, others, hub,
                   webhooks, uploads, retrying, cancelling, deleting, keyLimit,
                   resp, cancelledPending, sideDone, swept, files,
                   removing>>

\* a poll_next that polls the receiver before the initial update
poll_next_live_first ==
    /\ stream.pc = "open"
    /\ IF stream.terminated
       THEN /\ stream' = [stream EXCEPT !.pc = "ended"]
            /\ event' = event
       ELSE IF stream.rx # <<>> /\ Head(stream.rx).job_id = stream.job_id
       THEN /\ stream' = [stream EXCEPT
                            !.rx = Tail(@),
                            !.terminated = ends_stream(Head(stream.rx))]
            /\ event' = Emit(Head(stream.rx))
       ELSE /\ ~stream.initial_sent /\ stream.initial_update # <<>>
            /\ stream' = [stream EXCEPT
                            !.initial_sent = TRUE,
                            !.initial_update = <<>>,
                            !.terminated = ends_stream(stream.initial_update[1])]
            /\ event' = Emit(stream.initial_update[1])
    /\ UNCHANGED <<store, nextId, creating, execs, permits, others, hub,
                   webhooks, uploads, retrying, cancelling, deleting, keyLimit,
                   resp, cancelledPending, sideDone, swept, files,
                   removing>>

\* JobProgressStream::poll_next, a call that returns Ready or wakes itself;
\* a call that finds the receiver empty returns Pending and changes nothing
poll_next ==
    /\ stream.pc = "open"
    /\ IF stream.terminated
       THEN \* Ready(None)
            /\ stream' = [stream EXCEPT !.pc = "ended"]
            /\ event' = event
       ELSE IF ~stream.initial_sent /\ stream.initial_update # <<>>
       THEN \* the initial update
            /\ stream' = [stream EXCEPT
                            !.initial_sent = TRUE,
                            !.initial_update = <<>>,
                            !.terminated = ends_stream(stream.initial_update[1])]
            /\ event' = Emit(stream.initial_update[1])
       ELSE IF stream.lagged
       THEN \* Ready(Some(Err(_))): wake and Pending
            /\ stream' = [stream EXCEPT !.initial_sent = TRUE, !.lagged = FALSE]
            /\ event' = event
       ELSE /\ stream.rx # <<>>
            /\ IF Head(stream.rx).job_id = stream.job_id
               THEN /\ stream' = [stream EXCEPT
                                    !.initial_sent = TRUE,
                                    !.rx = Tail(@),
                                    !.terminated = ends_stream(Head(stream.rx))]
                    /\ event' = Emit(Head(stream.rx))
               ELSE \* the update of another job: wake and Pending
                    /\ stream' = [stream EXCEPT !.initial_sent = TRUE,
                                                !.rx = Tail(@)]
                    /\ event' = event
    /\ UNCHANGED <<store, nextId, creating, execs, permits, others, hub,
                   webhooks, uploads, retrying, cancelling, deleting, keyLimit,
                   resp, cancelledPending, sideDone, swept, files,
                   removing>>

\* the id of a job outside the ids the model follows
OtherJob == 0

\* an update sent by the execution of a job outside the ids the model
\* follows: a checkpoint or its completion
other_progress ==
    /\ \E u \in {ProgressUpdate(OtherJob, "processing", 10),
                  ProgressUpdate(OtherJob, "completed", 100)} : send_progress(u)
    /\ UNCHANGED <<store, nextId, creating, execs, permits, others, webhooks,
                   uploads, retrying, cancelling, deleting, keyLimit, resp,
                   cancelledPending, event, sideDone, swept, files,
                   removing>>

\* ------------------------------------------------------------------------
\* process_job executions of jobs outside JobIds: only their permit is kept
other_acquire ==
    /\ permits > 0
    /\ permits' = permits - 1
    /\ others' = others + 1
    /\ UNCHANGED <<store, nextId, creating, execs, hub, webhooks, uploads,
                   retrying, cancelling, deleting, keyLimit, resp,
                   cancelledPending,
                   stream, event, sideDone, swept, files,
                   removing>>

\* an execution of another job that ends without giving back its permit
other_release_leak ==
    /\ others > 0
    /\ others' = others - 1
    /\ UNCHANGED <<store, nextId, creating, execs, permits, hub, webhooks,
                   uploads, retrying, cancelling, deleting, keyLimit, resp,
                   cancelledPending, stream, event, sideDone, swept, files,
                   removing>>

other_release ==
    /\ others > 0
    /\ others' = others - 1
    /\ permits' = permits + 1
    /\ UNCHANGED <<store, nextId, creating, execs, hub, webhooks, uploads,
                   retrying, cancelling, deleting, keyLimit, resp,
                   cancelledPending,
                   stream, event, sideDone, swept, files,
                   removing>>

Requests(owners, hooks) ==
    \/ \E owner \in owners, webhook \in hooks : create_job_admit(owner, webhook)
    \/ \E id \in DOMAIN execs : create_job_insert(id)
    \/ \E id \in DOMAIN execs : retry_job_read(id)
    \/ \E id \in DOMAIN execs : retry_job_reset(id)
    \/ \E id \in DOMAIN execs : cancel_job_read(id)
    \/ \E id \in DOMAIN execs : cancel_job_write(id)
    \/ \E id \in DOMAIN execs : delete_job_read(id)
    \/ \E id \in DOMAIN execs : delete_job_remove(id)
    \/ \E id \in DOMAIN execs : delete_job_write(id)

Next ==
    \/ Requests(Keys \cup {NULL}, {NULL, "url"})
    \/ \E id \in JobIds, a \in Attempts : process_job(id, a)

Spec == Init /\ [][Next]_vars

\* The job engine next to the cleanup task of main
NextSweep ==
    \/ Requests({NULL}, {NULL})
    \/ \E id \in JobIds, a \in Attempts : process_job(id, a)
    \/ \E id \in JobIds : time_passes(id)
    \/ cleanup_old_jobs

SpecSweep == Init /\ [][NextSweep]_vars

\* Executions that no cancel and no delete interleaves with
NextRun ==
    \/ \E owner \in Keys \cup {NULL}, webhook \in {NULL, "url"} :
          create_job_admit(owner, webhook)
    \/ \E id \in JobIds : create_job_insert(id)
    \/ \E id \in JobIds : retry_job_read(id)
    \/ \E id \in JobIds : retry_job_reset(id)
    \/ \E id \in JobIds, a \in Attempts : process_job(id, a)

SpecRun == Init /\ [][NextRun]_vars

\* A job that runs once, with a store that may fail the load of process_job
NextFault ==
    \/ \E owner \in Keys \cup {NULL}, webhook \in {NULL, "url"} :
          create_job_admit(owner, webhook)
    \/ \E id \in JobIds : create_job_insert(id)
    \/ \E id \in JobIds : cancel_job_read(id)
    \/ \E id \in JobIds : cancel_job_write(id)
    \/ \E id \in JobIds : delete_job_read(id)
    \/ \E id \in JobIds : delete_job_remove(id)
    \/ \E id \in JobIds : delete_job_write(id)
    \/ \E id \in JobIds : process_job(id, 1)
    \/ \E id \in JobIds : process_job_load_err(id, 1)

SpecFault == Init /\ [][NextFault]_vars

\* Jobs of every conversion category, run once
NextCategory ==
    \/ \E owner \in Keys \cup {NULL}, conversion_type \in ConversionTypes :
          create_job_request(owner, NULL, conversion_type)
    \/ \E id \in JobIds : create_job_insert(id)
    \/ \E id \in JobIds : delete_job_read(id)
    \/ \E id \in JobIds : delete_job_remove(id)
    \/ \E id \in JobIds : delete_job_write(id)
    \/ \E id \in JobIds : process_job(id, 1)

SpecCategory == Init /\ [][NextCategory]_vars

\* The semaphore under load: anonymous jobs without a webhook, next to the
\* executions of other jobs that take and give back permits.
InitSem == Init /\ keyLimit = <<>>

NextSem ==
    \/ Requests({NULL}, {NULL})
    \/ \E id \in JobIds, a \in Attempts : process_job(id, a)
    \/ other_acquire
    \/ other_release

SpecSem == InitSem /\ [][NextSem]_vars

\* The tasks spawned at the end of an execution, next to a job that runs once
NextSide ==
    \/ \E owner \in Keys \cup {NULL}, webhook \in {NULL, "url"} :
          create_job_admit(owner, webhook)
    \/ \E id \in JobIds : create_job_insert(id)
    \/ \E id \in JobIds : cancel_job_read(id)
    \/ \E id \in JobIds : cancel_job_write(id)
    \/ \E id \in JobIds : delete_job_read(id)
    \/ \E id \in JobIds : delete_job_remove(id)
    \/ \E id \in JobIds : delete_job_write(id)
    \/ \E id \in JobIds : process_job(id, 1)
    \/ \E id \in JobIds : send_webhook(id)
    \/ \E id \in JobIds : upload_to_drive_if_enabled(id)

SpecSide == InitSem /\ [][NextSide]_vars

\* The semaphore under fair scheduling: the runtime runs every spawned
\* process_job that can take a step, the semaphore hands its permits to the
\* waiting executions in the order they asked, and the conversions of the
\* other jobs return.
Fairness ==
    /\ \A id \in JobIds : SF_vars(process_job(id, 1))
    /\ WF_vars(other_release)

\* a job that runs once and may be cancelled or deleted
NextLive ==
    \/ create_job_admit(NULL, NULL)
    \/ \E id \in JobIds : create_job_insert(id)
    \/ \E id \in JobIds : cancel_job_read(id)
    \/ \E id \in JobIds : cancel_job_write(id)
    \/ \E id \in JobIds : delete_job_read(id)
    \/ \E id \in JobIds : delete_job_remove(id)
    \/ \E id \in JobIds : delete_job_write(id)
    \/ \E id \in JobIds : process_job(id, 1)
    \/ other_acquire
    \/ other_release

SpecLive == InitSem /\ [][NextLive]_vars /\ Fairness

\* the same job when the store read of its execution may fail
NextLiveFault ==
    \/ NextLive
    \/ \E id \in JobIds : process_job_load_err(id, 1)

FairnessFault ==
    /\ \A id \in JobIds :
          SF_vars(process_job(id, 1) \/ process_job_load_err(id, 1))
    /\ WF_vars(other_release)

SpecLiveFault == InitSem /\ [][NextLiveFault]_vars /\ FairnessFault

\* A progress stream of a job without owner and webhook that runs once and
\* may be cancelled, next to the updates of other jobs on the hub.
NextStream ==
    \/ create_job_admit(NULL, NULL)
    \/ \E id \in JobIds : create_job_insert(id)
    \/ \E id \in JobIds : cancel_job_read(id)
    \/ \E id \in JobIds : cancel_job_write(id)
    \/ \E id \in JobIds : process_job(id, 1)
    \/ \E id \in JobIds : job_progress_stream_read(id)
    \/ job_progress_stream_subscribe
    \/ poll_next
    \/ other_progress

SpecStream == InitSem /\ [][NextStream]_vars

\* Admission: one job more than JobIds, created by the key or by nobody, with
\* the limit of the key at 1; the jobs run once and may be cancelled.
AdmitIds == 1..(MaxJobs + 1)

InitAdmit == InitJobs(AdmitIds) /\ keyLimit = <<1>>

NextAdmit ==
    \/ \E owner \in Keys \cup {NULL} : create_job_admit(owner, NULL)
    \/ \E id \in AdmitIds : create_job_insert(id)
    \/ \E id \in AdmitIds : cancel_job_read(id)
    \/ \E id \in AdmitIds : cancel_job_write(id)
    \/ \E id \in AdmitIds : process_job(id, 1)

SpecAdmit == InitAdmit /\ [][NextAdmit]_vars

\* ------------------------------------------------------------------------
Status(id) == store[id].status

Holding(id, a) == execs[id][a].pc \notin {"idle", "acquire", "done"}

\* process_job executions past semaphore.acquire() and not yet ended
Held == Cardinality({x \in JobIds \X Attempts : Holding(x[1], x[2])}) + others

Rows(id) == HasRow(store, id) /\ HasRow(store', id)

LegalEdges ==
    {<<"pending", "processing">>, <<"processing", "completed">>,
     <<"processing", "failed">>, <<"failed", "pending">>,
     <<"pending", "cancelled">>, <<"processing", "cancelled">>}

\* C1: the persisted status of a job changes only along pending->processing,
\* processing->completed, processing->failed, failed->pending,
\* pending->cancelled and processing->cancelled; a cancelled job never
\* changes status again.
C1_StatusEdges ==
    [][\A id \in JobIds :
          (Rows(id) /\ store'[id].status # store[id].status)
          => <<store[id].status, store'[id].status>> \in LegalEdges]_vars

\* the step of retry_job in which reset_job_for_retry hit the row
RetryOk(id) ==
    /\ retrying'[id] = retrying[id] - 1
    /\ resp' = Resp("retry", id, "Ok")

\* C2: a completed job never changes status again, and a failed job changes
\* status only in a successful retry, which sets it to pending.
C2_TerminalStable ==
    [][\A id \in JobIds :
          Rows(id) =>
             /\ (store[id].status = "completed" => store'[id].status = "completed")
             /\ (store[id].status = "failed" /\ store'[id].status # "failed"
                    => store'[id].status = "pending" /\ RetryOk(id))]_vars

\* a cancel that read processing and wrote after the job was completed: the
\* job is still completed
C2_Witness ==
    \E id \in DOMAIN store :
       /\ Status(id) = "completed"
       /\ resp = Resp("cancel", id, "Internal")

\* C3: at most MAX_CONCURRENT_JOBS executions are past the acquisition and
\* not yet ended; an execution that finds no permit stays at the
\* acquisition, and while it waits the pending status of its job is changed
\* by nothing but a cancel.
C3_AtMostTenRunning ==
    /\ [](Held <= MAX_CONCURRENT_JOBS)
    /\ [][\A id \in JobIds, a \in Attempts :
             (execs[id][a].pc = "acquire" /\ permits = 0)
             => /\ execs'[id][a].pc = "acquire"
                /\ (Rows(id) /\ store[id].status = "pending"
                      => \/ store'[id].status = "pending"
                         \/ /\ store'[id].status = "cancelled"
                            /\ cancelling'[id] = cancelling[id] - 1)]_vars

\* an execution waits for a permit while ten others hold one
C3_Witness ==
    \E id \in DOMAIN store, a \in Attempts :
       /\ execs[id][a].pc = "acquire"
       /\ permits = 0
       /\ Held = MAX_CONCURRENT_JOBS
       /\ Status(id) = "pending"

\* C4: the permits held plus the permits available are always
\* MAX_CONCURRENT_JOBS, and all of them are available whenever no
\* process_job execution is past the acquisition.
C4_PermitsConserved ==
    /\ Held + permits = MAX_CONCURRENT_JOBS
    /\ (Held = 0 => permits = MAX_CONCURRENT_JOBS)

\* the execution ended at the row it did not find after mark_job_processing:
\* the last update is its processing 0 and its permit is back
C4_Witness ==
    \E id \in JobIds :
       /\ execs[id][1] = Done
       /\ ~HasRow(store, id)
       /\ hub = ProgressUpdate(id, "processing", 0)
       /\ Held = 0
       /\ permits = MAX_CONCURRENT_JOBS

\* C5: the persisted progress of a job is lowered by nothing but a retry.
C5_ProgressMonotone ==
    [][\A id \in JobIds :
          (Rows(id) /\ store'[id].progress < store[id].progress)
          => RetryOk(id)]_vars

\* C6: no webhook with status completed is sent for a job that was cancelled
\* while its persisted status was pending.
C6_NoCompletedWebhook ==
    \A id \in cancelledPending : <<id, "completed", NULL>> \notin webhooks

\* C7: retry_count is at most MAX_RETRIES, and a job is executed at most
\* MAX_RETRIES + 1 times.
C7_RetryBound ==
    \A id \in JobIds :
       /\ HasRow(store, id) => store[id].retry_count <= MAX_RETRIES
       /\ Cardinality(Spawned(execs, id)) <= MAX_RETRIES + 1

\* C8: a successful retry of a failed job with retry_count n < MAX_RETRIES
\* leaves status pending, progress 0, no error, no timestamps and
\* retry_count n + 1, and starts exactly one process_job execution.
C8_RetryResets ==
    [][\A id \in JobIds :
          (RetryOk(id) /\ HasRow(store, id)
             /\ store[id].retry_count < MAX_RETRIES)
          => /\ store[id].status = "failed"
             /\ store' = [store EXCEPT ![id] =
                            [@ EXCEPT !.status = "pending",
                                      !.progress = 0,
                                      !.error = NULL,
                                      !.started_at = NULL,
                                      !.completed_at = NULL,
                                      !.retry_count = store[id].retry_count + 1,
                                      !.updated_at = "t_retry"]]
             /\ \E a \in Attempts :
                   /\ execs[id][a].pc = "idle"
                   /\ execs' = [execs EXCEPT ![id][a].pc = "acquire"]]_vars

\* the second retry of a job has returned and its execution has not begun
C8_Witness ==
    \E id \in DOMAIN store :
       /\ resp = Resp("retry", id, "Ok")
       /\ Status(id) = "pending"
       /\ store[id].retry_count = 2
       /\ store[id].error = NULL
       /\ execs[id][3].pc = "acquire"

Retryable(st, id) ==
    /\ HasRow(st, id)
    /\ st[id].status = "failed"
    /\ st[id].retry_count < MAX_RETRIES

\* C9: a retry passes its checks only on a failed job with
\* retry_count < MAX_RETRIES that has a row; a retry that returns an error
\* changes no row, sends nothing on the hub and starts no execution.
C9_RetryRejected ==
    [][\A id \in JobIds :
          /\ (retrying'[id] > retrying[id] => Retryable(store, id))
          /\ (/\ resp' # resp
              /\ resp'.op = "retry"
              /\ resp'.id = id
              /\ resp'.res # "Ok")
             => /\ store' = store
                /\ hub' = hub
                /\ execs' = execs]_vars

\* the retry of a failed job at the limit was rejected
C9_Witness ==
    \E id \in DOMAIN store :
       /\ resp = Resp("retry", id, "BadRequest")
       /\ Status(id) = "failed"
       /\ store[id].retry_count >= MAX_RETRIES

\* C10: cancel rejects a job for its status only when the status is neither
\* pending nor processing; its write on a pending or processing job sets
\* cancelled, sends the cancelled update and returns in that step, and the
\* write never waits for an execution.
C10_CancelTakesEffect ==
    /\ [][\A id \in JobIds :
             /\ (resp' # resp /\ resp' = Resp("cancel", id, "BadRequest"))
                => (HasRow(store, id)
                      /\ store[id].status \notin {"pending", "processing"})
             /\ (/\ cancelling'[id] = cancelling[id] - 1
                 /\ HasRow(store, id)
                 /\ store[id].status \in {"pending", "processing"})
                => /\ HasRow(store', id)
                   /\ store'[id].status = "cancelled"
                   /\ hub' = ProgressUpdate(id, "cancelled", 0)
                   /\ resp' = Resp("cancel", id, "Ok")
                   /\ execs' = execs]_vars
    /\ [](\A id \in JobIds : cancelling[id] > 0 => ENABLED cancel_job_write(id))

\* cancel has returned while the execution of the job is between its
\* checkpoints
C10_Witness ==
    \E id \in DOMAIN store :
       /\ resp = Resp("cancel", id, "Ok")
       /\ hub = ProgressUpdate(id, "cancelled", 0)
       /\ Status(id) = "cancelled"
       /\ execs[id][1].pc \in {"p10", "p30", "convert", "write", "p80", "final"}

\* a step in which a cancel request of the job returns or makes its write
CancelStep(id) ==
    \/ cancelling'[id] = cancelling[id] - 1
    \/ /\ resp' # resp
       /\ resp'.op = "cancel"
       /\ resp'.id = id

\* C11: a cancel passes its status check only on a pending or processing job;
\* a cancel that returns, or makes its write, while the job is completed,
\* failed or cancelled returns an error, changes no row and sends nothing on
\* the hub, also when the job reached that status after the cancel's read.
C11_CancelRejected ==
    [][\A id \in JobIds :
          /\ (cancelling'[id] > cancelling[id]
                => HasRow(store, id)
                   /\ store[id].status \in {"pending", "processing"})
          /\ (/\ CancelStep(id)
              /\ HasRow(store, id)
              /\ store[id].status \in {"completed", "failed", "cancelled"})
             => /\ resp'.op = "cancel"
                /\ resp'.res \in {"BadRequest", "Internal"}
                /\ store' = store
                /\ hub' = hub]_vars

\* a cancel read processing and made its write after the job had failed
C11_Witness ==
    \E id \in DOMAIN store :
       /\ resp = Resp("cancel", id, "Internal")
       /\ Status(id) = "failed"
       /\ store[id].error # NULL
       /\ hub = ProgressUpdate(id, "failed", 0)

\* a step in which create_job returns TooManyJobs
CreateRejected ==
    /\ resp' # resp
    /\ resp' = Resp("create", 0, "TooManyJobs")

\* the requests that pass the admission check in the step
Admitted == DOMAIN creating' \ DOMAIN creating

Terminal == {"completed", "failed", "cancelled"}

\* a step in which a pending or processing job of the key becomes completed,
\* failed or cancelled
BecomesTerminal(k) ==
    \E id \in DOMAIN store \cap DOMAIN store' :
       /\ store[id].api_key_id = k
       /\ store[id].status \in {"pending", "processing"}
       /\ store'[id].status \in Terminal

\* C12 (rejection and acceptance against the count read by the check): a
\* create_job is rejected only when the pending and processing jobs of a key
\* are at or above its limit, and then no row, request, execution or update
\* is added; a create_job of a key passes only when they are below the limit.
C12_RejectedAtLimit ==
    [][/\ CreateRejected
          => /\ \E k \in Keys : count_user_active_jobs(store, k)
                                   >= get_user_job_limit(keyLimit)
             /\ store' = store
             /\ creating' = creating
             /\ execs' = execs
             /\ hub' = hub
       /\ \A id \in Admitted :
             creating'[id].owner # NULL
             => count_user_active_jobs(store, creating'[id].owner)
                   < get_user_job_limit(keyLimit)]_vars

\* C12: create_job of an owner is rejected with TooManyJobs exactly when the
\* owner's pending and processing jobs, as read by the check, are at or above
\* the owner's limit; a rejected create_job adds no row and sends nothing;
\* and right after one of the owner's pending or processing jobs has become
\* completed, failed or cancelled, a create_job of the owner is not rejected.
C12_Admission ==
    [][/\ CreateRejected
          => /\ \E k \in Keys : count_user_active_jobs(store, k)
                                   >= get_user_job_limit(keyLimit)
             /\ store' = store
             /\ hub' = hub
       /\ \A id \in Admitted :
             creating'[id].owner # NULL
             => count_user_active_jobs(store, creating'[id].owner)
                   < get_user_job_limit(keyLimit)
       /\ \A k \in Keys :
             BecomesTerminal(k) => ~TooManyJobs(store', keyLimit', k)]_vars

\* C13: a create_job without an owner is never rejected with TooManyJobs,
\* whatever the pending and processing jobs in the store: its rejection is
\* possible in no state, and it passes the check whenever an id is left.
C13_AnonymousAdmitted ==
    \A webhook \in {NULL, "url"} :
       /\ ~ENABLED (create_job_admit(NULL, webhook) /\ nextId' = nextId)
       /\ nextId \in DOMAIN execs
          => ENABLED (create_job_admit(NULL, webhook) /\ nextId' = nextId + 1)

\* a request without an owner passed the check while the pending and
\* processing jobs in the store were at the limit of the key
C13_Witness ==
    \E id \in DOMAIN creating :
       /\ creating[id].owner = NULL
       /\ creating[id].active >= get_user_job_limit(keyLimit)

\* a step in which poll_next returns an event
Emits == event' # event

\* C14: the initial update of a stream is the persisted status and progress of
\* its job at the stream's read; it is kept until the first poll, the first
\* poll returns it, and no event comes before it, whatever was sent on the
\* hub in between and whatever the status of the job at the read.
C14_InitialFirst ==
    /\ [][/\ (stream.pc = "none" /\ stream'.pc = "read")
             => /\ HasRow(store, stream'.job_id)
                /\ stream'.initial_update =
                      <<ProgressUpdate(stream'.job_id,
                                       store[stream'.job_id].status,
                                       store[stream'.job_id].progress)>>
          /\ (stream.pc \in {"read", "open"} /\ ~stream.initial_sent)
             => /\ stream.initial_update # <<>>
                /\ IF Emits
                   THEN /\ event = NoEvent
                        /\ event'.update = stream.initial_update[1]
                        /\ stream'.initial_sent
                   ELSE stream'.initial_update = stream.initial_update]_vars
    /\ [](event # NoEvent => stream.initial_sent)
    /\ [](stream.pc = "open" /\ ~stream.initial_sent
            => ENABLED (poll_next /\ event' # event))

\* the stream was opened after its job had completed: its only event is the
\* completed update
C14_Witness ==
    /\ stream.pc = "ended"
    /\ event = [n |-> 1, update |-> ProgressUpdate(stream.job_id, "completed", 100)]
    /\ stream.rx = <<>>
    /\ HasRow(store, stream.job_id)
    /\ execs[stream.job_id][1] = Done

\* C15: once the stream has returned an event of its job with status
\* completed, failed or cancelled, it returns no further event.
C15_EndsAtTerminal ==
    [][(/\ event # NoEvent
        /\ event.update.job_id = stream.job_id
        /\ event.update.status \in Terminal)
       => ~Emits]_vars

\* C16: every event the stream returns is an update of the stream's job.
C16_OnlyOwnJob ==
    [][Emits => event'.update.job_id = stream.job_id]_vars

\* the stream returned the live processing 30 of its job, the update of
\* another job was sent after it, and the receiver is empty again: poll_next
\* took the other job's update and returned no event for it
C16_Witness ==
    /\ stream.pc = "open"
    /\ event = [n |-> 0, update |-> ProgressUpdate(stream.job_id, "processing", 30)]
    /\ hub = ProgressUpdate(OtherJob, "completed", 100)
    /\ stream.rx = <<>>
    /\ ~stream.lagged

\* C17: a delete finds its job exactly when the job has a row, whatever its
\* status; its write removes the row, leaves the other rows and returns Ok;
\* a delete of an id without a row returns JobNotFound and changes nothing.
C17_Delete ==
    /\ [][\A id \in JobIds :
             /\ (deleting'[id] > deleting[id] => HasRow(store, id))
             /\ (deleting'[id] < deleting[id]
                   => /\ store' = db_delete_job(store, id)
                      /\ ~HasRow(store', id)
                      /\ resp' = Resp("delete", id, "Ok"))
             /\ (resp' # resp /\ resp' = Resp("delete", id, "JobNotFound"))
                => /\ ~HasRow(store, id)
                   /\ store' = store
                   /\ creating' = creating
                   /\ execs' = execs
                   /\ hub' = hub]_vars
    /\ [](\A id \in JobIds :
             /\ (HasRow(store, id) /\ deleting[id] < MaxDeleting)
                => ENABLED (delete_job_read(id) /\ deleting'[id] > deleting[id])
             /\ ~HasRow(store, id)
                => ~ENABLED (delete_job_read(id) /\ deleting'[id] > deleting[id]))

\* a job was deleted while its execution was running, and the second delete
\* of the job returned JobNotFound
C17_Witness ==
    \E id \in JobIds :
       /\ resp = Resp("delete", id, "JobNotFound")
       /\ ~HasRow(store, id)
       /\ id \notin DOMAIN creating
       /\ execs[id][1].pc \in {"p10", "p30", "convert", "write", "p80", "final"}

\* C18: a completed job has its result path set, and while the job is
\* completed and its row exists no step changes the result path.
C18_ResultPath ==
    /\ [](\A id \in DOMAIN store :
             store[id].status = "completed" => store[id].result_path # NULL)
    /\ [][\A id \in JobIds :
             (Rows(id) /\ store[id].status = "completed")
             => store'[id].result_path = store[id].result_path]_vars

\* a retry of a completed job was rejected and its result path is in place
C18_Witness ==
    \E id \in DOMAIN store :
       /\ Status(id) = "completed"
       /\ store[id].result_path = "path"
       /\ resp = Resp("retry", id, "BadRequest")

\* C19: the error of a job is set exactly when its status is failed.
C19_ErrorIffFailed ==
    \A id \in DOMAIN store :
       store[id].error # NULL <=> store[id].status = "failed"

\* a job that failed once and was retried has completed without an error
C19_Witness ==
    \E id \in DOMAIN store :
       /\ Status(id) = "completed"
       /\ store[id].retry_count = 1
       /\ store[id].error = NULL

\* C20: the row of a job is created with retry_count 0; retry_count changes
\* only in the step of a retry that moves the job from failed to pending,
\* and that step adds exactly 1; no step of process_job, cancel or create
\* changes it.
C20_RetryCount ==
    [][\A id \in JobIds :
          /\ (~HasRow(store, id) /\ HasRow(store', id))
             => store'[id].retry_count = 0
          /\ Rows(id) =>
                IF RetryOk(id)
                THEN /\ store[id].status = "failed"
                     /\ store'[id].status = "pending"
                     /\ store'[id].retry_count = store[id].retry_count + 1
                ELSE store'[id].retry_count = store[id].retry_count]_vars

\* a job retried twice was cancelled while its third execution was running:
\* retry_count is still 2
C20_Witness ==
    \E id \in DOMAIN store :
       /\ Status(id) = "cancelled"
       /\ store[id].retry_count = 2
       /\ resp = Resp("cancel", id, "Ok")
       /\ execs[id][3].pc \in {"p10", "p30", "convert", "write", "p80", "final"}

\* C21: started_at and completed_at of a job are written only while they are
\* unset, so at most once in an execution attempt: no progress checkpoint
\* writes started_at again; a successful retry unsets both.
C21_TimestampsOnce ==
    [][\A id \in JobIds :
          Rows(id) =>
             /\ store'[id].started_at # store[id].started_at
                => \/ store[id].started_at = NULL
                   \/ RetryOk(id) /\ store'[id].started_at = NULL
             /\ store'[id].completed_at # store[id].completed_at
                => \/ store[id].completed_at = NULL
                   \/ RetryOk(id) /\ store'[id].completed_at = NULL
             /\ RetryOk(id)
                => /\ store'[id].started_at = NULL
                   /\ store'[id].completed_at = NULL]_vars

\* C22: under fair scheduling a job whose row is pending is eventually
\* completed, failed or cancelled, or its row is deleted, also while the
\* executions of other jobs hold all the permits.
C22_PendingEnds ==
    \A id \in JobIds :
       (HasRow(store, id) /\ store[id].status = "pending")
       ~> (~HasRow(store, id) \/ store[id].status \in Terminal)

\* a pending job waits for a permit while the executions of ten other jobs
\* hold them all
C22_Witness ==
    \E id \in DOMAIN store :
       /\ Status(id) = "pending"
       /\ execs[id][1].pc = "acquire"
       /\ others = MAX_CONCURRENT_JOBS

\* an execution that has not yet made its last write to the row of its job
Writing(id, a) ==
    execs[id][a].pc \in {"acquire", "mark", "load", "record", "p10", "p30",
                         "convert", "write", "p80", "final"}

\* C23: at most one execution of a job has writes to the row left to make;
\* an execution is started only by create_job, as the first of the job, or by
\* a retry whose reset found the job failed.
C23_OneWriter ==
    /\ [](\A id \in JobIds : Cardinality({a \in Attempts : Writing(id, a)}) <= 1)
    /\ [][\A id \in JobIds :
             Spawned(execs', id) # Spawned(execs, id)
             => \/ /\ ~HasRow(store, id)
                   /\ HasRow(store', id)
                   /\ Spawned(execs, id) = {}
                \/ /\ RetryOk(id)
                   /\ HasRow(store, id)
                   /\ store[id].status = "failed"]_vars

\* the second execution of a job runs while the first, past its last write,
\* has not yet returned, and a second retry request is between its read and
\* its write
C23_Witness ==
    \E id \in DOMAIN store :
       /\ execs[id][1].pc = "webhook"
       /\ Writing(id, 2)
       /\ execs[id][2].pc # "acquire"
       /\ retrying[id] > 0

\* C24: an upload is started only in the step of an execution that marks its
\* job completed, for a job with an owner; the job of a started upload is
\* completed and owned as long as its row exists.
C24_UploadOnlyCompletedOwned ==
    /\ [](\A id \in uploads :
             HasRow(store, id) => /\ store[id].status = "completed"
                                  /\ store[id].api_key_id # NULL)
    /\ [][\A id \in uploads' \ uploads :
             \E a \in Attempts :
                /\ execs[id][a].pc = "final"
                /\ execs'[id][a].pc = "webhook"
                /\ execs[id][a].res = "ok"
                /\ execs[id][a].key # NULL
                /\ hub' = ProgressUpdate(id, "completed", 100)]_vars

\* the upload of an owned job was started after a first attempt that failed
C24_Witness ==
    \E id \in uploads :
       /\ HasRow(store, id)
       /\ store[id].status = "completed"
       /\ store[id].api_key_id = "k1"
       /\ store[id].retry_count = 1

SideStep == sideDone' # sideDone

UploadSaved(id) ==
    SideTask("upload", id, NULL, "ok") \in sideDone' \ sideDone

\* C26 as stated: a webhook delivery or an upload that ends leaves every field
\* of every job as it was, but the drive file id after a successful upload.
C26_OnlyDriveFileId ==
    [][SideStep
       => /\ DOMAIN store' = DOMAIN store
          /\ \A id \in DOMAIN store :
                /\ [store'[id] EXCEPT !.drive_file_id = store[id].drive_file_id]
                      = store[id]
                /\ store'[id].drive_file_id # store[id].drive_file_id
                      => UploadSaved(id)]_vars

\* C26, amended: a webhook delivery or an upload that ends leaves the status,
\* progress, error, result path and retry_count of every job unchanged; the
\* only fields it writes are the drive file id and updated_at, both only
\* after a successful upload.
C26_SideEffectsFrame ==
    [][SideStep
       => /\ DOMAIN store' = DOMAIN store
          /\ \A id \in DOMAIN store :
                /\ [store'[id] EXCEPT !.drive_file_id = store[id].drive_file_id,
                                      !.updated_at = store[id].updated_at]
                      = store[id]
                /\ store'[id] # store[id] => UploadSaved(id)]_vars

\* the upload of a job wrote the file id after the webhook delivery of the
\* same job failed
C26_Witness ==
    \E id \in DOMAIN store :
       /\ store[id].drive_file_id = "file"
       /\ store[id].status = "completed"
       /\ SideTask("upload", id, NULL, "ok") \in sideDone
       /\ SideTask("webhook", id, "completed", "err") \in sideDone

\* the step of delete_job in which db delete_job ran
DeleteWrote(id) == deleting'[id] < deleting[id]

\* C27: a row removed by the sweep is completed or failed and older than the
\* retention window, so the sweep removes no pending or processing job and no
\* job created within the window; a row is removed only by the sweep or by the
\* write of delete_job.
C27_SweepOnlyOldTerminal ==
    /\ [][\A id \in DOMAIN store :
             id \notin DOMAIN store'
             => \/ DeleteWrote(id)
                \/ /\ <<id, store[id].status>> \in swept'
                   /\ store[id].status \in {"completed", "failed"}
                   /\ store[id].aged]_vars
    /\ [][swept' # swept
          => \A id \in DOMAIN store :
                (store[id].status \in {"pending", "processing"} \/ ~store[id].aged)
                => id \in DOMAIN store' /\ store'[id] = store[id]]_vars

\* the sweep removed a job that completed in its second attempt
C27_Witness ==
    \E id \in JobIds :
       /\ ~HasRow(store, id)
       /\ <<id, "completed">> \in swept
       /\ execs[id][2].pc = "done"

\* the update that the step of process_job at pc publishes
Published(id, pc, res) ==
    IF pc = "mark" THEN ProgressUpdate(id, "processing", 0)
    ELSE IF pc = "p10" THEN ProgressUpdate(id, "processing", 10)
    ELSE IF pc = "p30" THEN ProgressUpdate(id, "processing", 30)
    ELSE IF pc = "p80" THEN ProgressUpdate(id, "processing", 80)
    ELSE IF res = "ok" THEN ProgressUpdate(id, "completed", 100)
    ELSE ProgressUpdate(id, "failed", 0)

\* the step of process_job that was the last to publish before pc
LastPublisher(pc) ==
    IF pc \in {"load", "record", "p10"} THEN "mark"
    ELSE IF pc = "p30" THEN "p10"
    ELSE IF pc \in {"convert", "write", "p80"} THEN "p30"
    ELSE "p80"

C29_LaggedStillTerminal ==
    (/\ stream.pc = "open"
     /\ stream.missed
     /\ ~stream.lagged
     /\ stream.rx = <<>>
     /\ execs[stream.job_id][1] = Done)
    => stream.terminated

\* C30: a job whose execution returned because the load of the job failed is
\* not left with status processing.
C30_StoreFailureFails ==
    \A id \in JobIds :
       (execs[id][1] = LoadFailed /\ HasRow(store, id))
       => store[id].status # "processing"

\* C31: the category that an execution got from get_job is the one whose text
\* create_job wrote to the conversion_type column of the job.
C31_CategoryRoundTrip ==
    \A id \in JobIds : \A a \in Attempts :
       (HasRow(store, id) /\ execs[id][a].conversion_type # NULL)
       => conversion_type_to_string(execs[id][a].conversion_type)
             = store[id].conversion_type

\* C32: while the row of a job has status processing, an execution of the
\* job is past its acquisition of a permit and has not returned.
C32_ProcessingHoldsPermit ==
    \A id \in JobIds :
       (HasRow(store, id) /\ store[id].status = "processing")
       => \E a \in Attempts : Holding(id, a)

\* C33: a stream whose job is completed or failed in the store has emitted an
\* event with that status once it has returned the initial update and all
\* that its receiver got, none of which was dropped.
C33_NoUpdateLostAtOpen ==
    (/\ stream.pc = "open"
     /\ stream.initial_sent
     /\ stream.rx = <<>>
     /\ ~stream.lagged
     /\ ~stream.missed
     /\ HasRow(store, stream.job_id)
     /\ store[stream.job_id].status \in {"completed", "failed"})
    => /\ stream.terminated
       /\ event.update = ProgressUpdate(stream.job_id,
                                        store[stream.job_id].status,
                                        store[stream.job_id].progress)


\* C34: once delete_job has returned success for a job, neither the input
\* file nor the output file of that job exists, also when an execution of the
\* job was running at the delete.
C34_DeleteRemovesArtifacts ==
    \A id \in JobIds :
       resp = Resp("delete", id, "Ok") => dir_entries(files, id) = {}


\* C35: the store a cleanup sweep leaves holds no row that was created before
\* the cutoff and is completed, failed or cancelled.
C35_SweepLeavesNoOldTerminal ==
    \A id \in DOMAIN delete_old_jobs(store) :
       ~(delete_old_jobs(store)[id].aged
         /\ delete_old_jobs(store)[id].status \in Terminal)


\* C36: a row has a result path only while its status is completed.
C36_ResultPathOnlyCompleted ==
    \A id \in DOMAIN store :
       store[id].result_path # NULL => store[id].status = "completed"


\* C36: a job that was cancelled while pending never has a result path.
C36_CancelledPendingNoResult ==
    \A id \in cancelledPending :
       HasRow(store, id) => store[id].result_path = NULL


\* C37: the pending and processing jobs of an owner never exceed the limit of
\* the owner.
C37_ActiveWithinLimit ==
    \A k \in Keys :
       count_user_active_jobs(store, k) <= get_user_job_limit(keyLimit)


\* C38: in the step in which an execution publishes completed or failed for
\* its job, the store holds a row of the job with the status published.
C38_TerminalPublishedWithRow ==
    [][\A id \in JobIds : \A a \in Attempts :
          (execs[id][a].pc = "final" /\ execs'[id][a].pc = "webhook")
          => /\ hub' = Published(id, "final", execs[id][a].res)
             /\ HasRow(store', id)
             /\ store'[id].status = hub'.status]_vars


\* ------------------------------------- services/queue/processor.rs, 176-197
\* a get_job_result that does not look at the status of the job
get_job_result_response_any_status(st, fs, id) ==
    IF ~HasRow(st, id) THEN "JobNotFound"
    ELSE IF st[id].result_path = NULL /\ output_path(id) \notin fs
         THEN "Internal"
    ELSE IF output_path(id) \in fs THEN "Ok"
    ELSE "Io"

\* get_job_result: what it returns for the row it reads and the files there
\* are; Ok stands for the bytes of the result file
get_job_result_response(st, fs, id) ==
    IF ~HasRow(st, id) THEN "JobNotFound"
    ELSE IF job_from_record_status(st[id].status) # "completed"
         THEN "JobNotCompleted"
    ELSE IF st[id].result_path = NULL THEN "Internal"
    ELSE IF output_path(id) \in fs THEN "Ok"
    ELSE "Io"

get_job_result(id) ==
    /\ resp' = Resp("result", id, get_job_result_response(store, files, id))
    /\ UNCHANGED <<store, nextId, creating, execs, permits, others, hub,
                   webhooks, uploads, retrying, cancelling, deleting, keyLimit,
                   cancelledPending, stream, event, sideDone, swept, files,
                   removing>>

\* A job that runs once and may be cancelled or deleted while its result is
\* asked for
NextResult ==
    \/ create_job_admit(NULL, NULL)
    \/ \E id \in JobIds : create_job_insert(id)
    \/ \E id \in JobIds : cancel_job_read(id)
    \/ \E id \in JobIds : cancel_job_write(id)
    \/ \E id \in JobIds : delete_job_read(id)
    \/ \E id \in JobIds : delete_job_remove(id)
    \/ \E id \in JobIds : delete_job_write(id)
    \/ \E id \in JobIds : process_job(id, 1)
    \/ \E id \in JobIds \cup {MaxJobs + 1} : get_job_result(id)

SpecResult == InitSem /\ [][NextResult]_vars

\* C39: get_job_result returns the result only for a completed job, fails
\* with JobNotCompleted for a pending, processing, failed or cancelled job and
\* with JobNotFound for an id without a row, and its step changes nothing but
\* the response.
C39_ResultOnlyCompleted ==
    /\ [](\A id \in JobIds \cup {MaxJobs + 1} :
             LET r == get_job_result_response(store, files, id)
             IN  /\ r = "Ok" => (HasRow(store, id) /\ Status(id) = "completed")
                 /\ (HasRow(store, id)
                     /\ Status(id) \in {"pending", "processing", "failed",
                                        "cancelled"})
                    => r = "JobNotCompleted"
                 /\ ~HasRow(store, id) => r = "JobNotFound")
    /\ [][resp'.op = "result" /\ resp' # resp
          => /\ store' = store
             /\ files' = files
             /\ execs' = execs
             /\ hub' = hub
             /\ resp'.res = get_job_result_response(store, files, resp'.id)]_vars

\* the result of a job was asked for after the converter wrote the output
\* file and before the job was marked completed
C39_Witness ==
    \E id \in DOMAIN store :
       /\ resp = Resp("result", id, "JobNotCompleted")
       /\ Status(id) = "processing"
       /\ output_path(id) \in files

====
